---- MODULE Spec2Model ----
(***************************************************************************)
(* A model of run.py of rotowire-rg-metric: main() parses the command      *)
(* line, prepares the data and either loads an Ensemble of checkpoints and *)
(* runs Inference over the test loader (--just-eval) or builds one model   *)
(* and hands it to Trainer.train.                                          *)
(*                                                                         *)
(* run.py is modelled from its code.  Trainer.train, Ensemble.forward,     *)
(* Inference.run and RgModel.from_file live in modules run.py imports      *)
(* (trainer, models, inference); they are modelled from the design         *)
(* document, sections 4.1 to 4.3.                                          *)
(***************************************************************************)
EXTENDS Integers, Sequences, FiniteSets, TLC

VARIABLES
    argv,          \* the command line given to main
    args,          \* the parsed Namespace (None before parse_args)
    pc,            \* main's position
    error,         \* the exception that ended the run ("" when none)
    prep_calls,    \* number of calls of prep_data
    paddings,      \* prep_data's padding index per input field
    loaders,       \* the batch iterators built by build_dataset_iter
    vocab_sizes,   \* run.py line 116
    listing,       \* what os.listdir returned
    idx,           \* position of the list comprehension in the listing
    models,        \* the models loaded so far (positions in the listing)
    ensemble,      \* the Ensemble (None before construction)
    inference,     \* the Inference object (None before construction)
    runs,          \* the calls of inference.run, in order
    out_files,     \* decoded-tuple files written
    model,         \* the model built in train mode
    trainer,       \* the Trainer (None before construction)
    train_calls,   \* the calls of trainer.train, in order
    checkpoints,   \* number of checkpoint files in the save directory
    tr,            \* Trainer.train's locals (TrIdle outside a call)
    member_out,    \* the member models' output distributions for one input
    combined,      \* Ensemble.forward's output for that input
    cands,         \* the candidates of the test loader, with the model's output
    tuples         \* the lines Inference.run wrote

mainVars == <<argv, args, pc, error, prep_calls, paddings, loaders,
              vocab_sizes, listing, idx, models, ensemble, inference, runs,
              out_files, model, trainer, train_calls, checkpoints>>

compVars == <<tr, member_out, combined, cands, tuples>>

vars == <<mainVars, compVars>>

---------------------------------------------------------------------------
(* Bounds of the model. *)

\* largest padding index prep_data returns, besides the 50 of the design
\* document's scenario
MaxPad == 0
\* most entries os.listdir returns
MaxFiles == 2
\* largest --ignore-idx given on the command line
MaxIdx == 0
\* largest --num-epochs of a training run
MaxEpochs == 3
\* validation metrics are 0..MaxMetric, larger is better
MaxMetric == 2
\* number of relation labels (prep_data's nlabels)
NLabels == 2
\* probabilities are multiples of 1/Mass
Mass == 2
\* most member models of an Ensemble whose forward pass is followed
MaxMembers == 3
\* most candidates in the test loader
MaxCands == 2

---------------------------------------------------------------------------
(* Python's None and optional values: None is the empty set, a value x    *)
(* that is present is {x}.                                                 *)

None == {}

Some(x) == {x}

The(opt) == CHOOSE x \in opt : TRUE

Opt(S) == {None} \cup {Some(x) : x \in S}

\* str() of an optional string, as an f-string formats it
Str(opt) == IF opt = None THEN "None" ELSE The(opt)

---------------------------------------------------------------------------
(* get_parser and parse_args *)

ModelChoices == {"lstm", "conv"}

AverageChoices == {"geometric", "arithmetic"}

DefaultNumEpochs == 10

\* --lr 0.7 and --lr-decay 0.5, as exact fractions <<numerator, denominator>>
DefaultLr == <<7, 10>>

DefaultLrDecay == <<1, 2>>

\* the command lines the model draws from; "gru" and "harmonic" are values
\* outside the choices of --model and --average-func
Argvs ==
    [just_eval : BOOLEAN,
     show_correctness : BOOLEAN,
     preddata : Opt({"gen"}),
     eval_models : Opt({"models"}),
     ignore_idx : Opt(0..MaxIdx),
     average_func : Opt(AverageChoices \cup {"harmonic"}),
     model : Opt(ModelChoices \cup {"gru"}),
     num_epochs : {DefaultNumEpochs},
     lr : {DefaultLr},
     lr_decay : {DefaultLrDecay}]

\* argparse rejects a value outside an argument's choices
ChoicesOk(av) ==
    /\ av.model = None \/ The(av.model) \in ModelChoices
    /\ av.average_func = None \/ The(av.average_func) \in AverageChoices

\* the Namespace parse_args returns, defaults filled in
Namespace(av) ==
    [just_eval |-> av.just_eval,
     show_correctness |-> av.show_correctness,
     preddata |-> av.preddata,
     eval_models |-> av.eval_models,
     ignore_idx |-> av.ignore_idx,
     average_func |-> IF av.average_func = None THEN "arithmetic"
                      ELSE The(av.average_func),
     model |-> av.model,
     num_epochs |-> av.num_epochs,
     lr |-> av.lr,
     lr_decay |-> av.lr_decay]

---------------------------------------------------------------------------
(* Values main builds *)

\* emb_sizes has three entries: one per input field
NFields == 3

PadChoices == (0..MaxPad) \cup {50}

Paddings == [1..NFields -> PadChoices]

\* vocab_sizes taken to be the paddings themselves
VocabSizesNoPad(p) == [i \in 1..NFields |-> p[i]]

\* line 116: vocab_sizes = [p + 1 for p in paddings]
VocabSizes(p) == [i \in 1..NFields |-> p[i] + 1]

\* lines 107-111: train, val and test iterators, the last two is_eval
Loaders ==
    << [split |-> "train", is_eval |-> FALSE],
       [split |-> "val", is_eval |-> TRUE],
       [split |-> "test", is_eval |-> TRUE] >>

\* a directory entry: its extension and whether RgModel.from_file can
\* deserialize it
Files == {[ext |-> "pt", loadable |-> TRUE],
          [ext |-> "pt", loadable |-> FALSE],
          [ext |-> "txt", loadable |-> FALSE]}

Listings == UNION {[1..n -> Files] : n \in 0..MaxFiles}

\* filename.endswith('.pt')
EndsWithPt(f) == f.ext = "pt"

\* the Ensemble built without average_func, left at 'arithmetic'
NewEnsembleDefaultFunc(ms, a) ==
    [models |-> ms, average_func |-> "arithmetic"]

\* line 127: Ensemble(models, average_func=args.average_func)
NewEnsemble(ms, a) == [models |-> ms, average_func |-> a.average_func]

\* the Inference built without ignore_idx
NewInferenceNoIgnore(a) ==
    [ignore_idx |-> None, show_correctness |-> a.show_correctness]

\* lines 131-134: Inference(..., ignore_idx=args.ignore_idx,
\*                          show_correctness=args.show_correctness)
NewInference(a) ==
    [ignore_idx |-> a.ignore_idx, show_correctness |-> a.show_correctness]

\* line 136: f'{args.preddata}-tuples.txt'
TuplesPath(a) == Str(a.preddata) \o "-tuples.txt"

\* lines 161-166
NewTrainer(a, p) == [paddings |-> p, ignore_idx |-> a.ignore_idx]

\* the call with the learning rate given as the decay factor too
TrainCallLrAsDecay(a) ==
    [n_epochs |-> a.num_epochs, lr |-> a.lr, lr_decay |-> a.lr]

\* lines 168-172
TrainCall(a) ==
    [n_epochs |-> a.num_epochs, lr |-> a.lr, lr_decay |-> a.lr_decay]

---------------------------------------------------------------------------
(* main *)

TrIdle == [epoch |-> 0]

Init ==
    /\ argv \in Argvs
    /\ args = None
    /\ pc = "parse"
    /\ error = ""
    /\ prep_calls = 0
    /\ paddings = <<>>
    /\ loaders = <<>>
    /\ vocab_sizes = <<>>
    /\ listing = <<>>
    /\ idx = 0
    /\ models = <<>>
    /\ ensemble = None
    /\ inference = None
    /\ runs = <<>>
    /\ out_files = {}
    /\ model = None
    /\ trainer = None
    /\ train_calls = <<>>
    /\ checkpoints = 0
    /\ tr = TrIdle
    /\ member_out = <<>>
    /\ combined = None
    /\ cands = <<>>
    /\ tuples = <<>>

Raise(e) == pc' = "raised" /\ error' = e

\* lines 93-96: parse_args exits on a value outside the choices;
\* configure_process sets the seed and the device
ParseArgs ==
    /\ pc = "parse"
    /\ IF ChoicesOk(argv)
       THEN /\ args' = Some(Namespace(argv))
            /\ pc' = "prep"
            /\ error' = error
       ELSE /\ args' = args
            /\ Raise("SystemExit")
    /\ UNCHANGED <<argv, prep_calls, paddings, loaders, vocab_sizes, listing,
                   idx, models, ensemble, inference, runs, out_files, model,
                   trainer, train_calls, checkpoints,
                   compVars>>

\* lines 98-102: prep_data returns the datasets and the paddings, or raises
PrepData ==
    /\ pc = "prep"
    /\ prep_calls' = prep_calls + 1
    /\ \/ /\ paddings' \in Paddings
          /\ pc' = "loaders"
          /\ error' = error
       \/ /\ paddings' = paddings
          /\ Raise("prep_data")
    /\ UNCHANGED <<argv, args, loaders, vocab_sizes, listing, idx, models,
                   ensemble, inference, runs, out_files, model, trainer,
                   train_calls, checkpoints,
                   compVars>>

\* lines 104-118: the loaders, emb_sizes, vocab_sizes and the branch on
\* args.just_eval
BuildLoaders ==
    /\ pc = "loaders"
    /\ loaders' = Loaders
    /\ vocab_sizes' = VocabSizes(paddings)
    /\ pc' = IF The(args).just_eval THEN "listdir" ELSE "build"
    /\ UNCHANGED <<argv, args, error, prep_calls, paddings, listing, idx,
                   models, ensemble, inference, runs, out_files, model,
                   trainer, train_calls, checkpoints,
                   compVars>>

\* line 123: os.listdir(args.eval_models); os.listdir(None) lists the
\* current directory; a missing directory raises
ListDir ==
    /\ pc = "listdir"
    /\ \/ /\ listing' \in Listings
          /\ idx' = 1
          /\ pc' = "load"
          /\ error' = error
       \/ /\ The(args).eval_models # None
          /\ UNCHANGED <<listing, idx>>
          /\ Raise("listdir")
    /\ UNCHANGED <<argv, args, prep_calls, paddings, loaders, vocab_sizes,
                   models, ensemble, inference, runs, out_files, model,
                   trainer, train_calls, checkpoints,
                   compVars>>

\* the comprehension with a file from_file cannot deserialize left out
\* instead of raising
LoadNextSkipUnloadable ==
    /\ pc = "load"
    /\ idx <= Len(listing)
    /\ IF ~EndsWithPt(listing[idx]) \/ ~listing[idx].loadable
       THEN /\ idx' = idx + 1
            /\ UNCHANGED <<models, pc, error>>
       ELSE IF The(args).eval_models = None
       THEN /\ UNCHANGED <<idx, models>>
            /\ Raise("TypeError")
       ELSE /\ models' = Append(models, idx)
            /\ idx' = idx + 1
            /\ UNCHANGED <<pc, error>>
    /\ UNCHANGED <<argv, args, prep_calls, paddings, loaders, vocab_sizes,
                   listing, ensemble, inference, runs, out_files, model,
                   trainer, train_calls, checkpoints, compVars>>

\* lines 121-125, one filename of the comprehension: a name not ending in
\* '.pt' is skipped; os.path.join(None, filename) raises TypeError;
\* from_file raises on a file it cannot deserialize
LoadNext ==
    /\ pc = "load"
    /\ idx <= Len(listing)
    /\ IF ~EndsWithPt(listing[idx])
       THEN /\ idx' = idx + 1
            /\ UNCHANGED <<models, pc, error>>
       ELSE IF The(args).eval_models = None
       THEN /\ UNCHANGED <<idx, models>>
            /\ Raise("TypeError")
       ELSE IF listing[idx].loadable
       THEN /\ models' = Append(models, idx)
            /\ idx' = idx + 1
            /\ UNCHANGED <<pc, error>>
       ELSE /\ UNCHANGED <<idx, models>>
            /\ Raise("from_file")
    /\ UNCHANGED <<argv, args, prep_calls, paddings, loaders, vocab_sizes,
                   listing, ensemble, inference, runs, out_files, model,
                   trainer, train_calls, checkpoints,
                   compVars>>

\* line 127
BuildEnsemble ==
    /\ pc = "load"
    /\ idx > Len(listing)
    /\ ensemble' = Some(NewEnsemble(models, The(args)))
    /\ pc' = "inference"
    /\ UNCHANGED <<argv, args, error, prep_calls, paddings, loaders,
                   vocab_sizes, listing, idx, models, inference, runs,
                   out_files, model, trainer, train_calls, checkpoints,
                   compVars>>

\* lines 129-134
BuildInference ==
    /\ pc = "inference"
    /\ inference' = Some(NewInference(The(args)))
    /\ pc' = "run"
    /\ UNCHANGED <<argv, args, error, prep_calls, paddings, loaders,
                   vocab_sizes, listing, idx, models, ensemble, runs,
                   out_files, model, trainer, train_calls, checkpoints,
                   compVars>>

\* inference.run without the return of line 138: main goes on to line 141
RunInferenceNoReturn ==
    /\ pc = "run"
    /\ runs' = Append(runs, [loader |-> loaders[3],
                             members |-> Len(The(ensemble).models),
                             path |-> TuplesPath(The(args))])
    /\ \/ /\ out_files' = out_files \cup {TuplesPath(The(args))}
          /\ pc' = "build"
          /\ error' = error
       \/ /\ out_files' = out_files
          /\ Raise("inference")
    /\ UNCHANGED <<argv, args, prep_calls, paddings, loaders, vocab_sizes,
                   listing, idx, models, ensemble, inference, model, trainer,
                   train_calls, checkpoints, compVars>>

\* lines 136-138: inference.run(loaders[2], model, path), then return
RunInference ==
    /\ pc = "run"
    /\ runs' = Append(runs, [loader |-> loaders[3],
                             members |-> Len(The(ensemble).models),
                             path |-> TuplesPath(The(args))])
    /\ \/ /\ out_files' = out_files \cup {TuplesPath(The(args))}
          /\ pc' = "done"
          /\ error' = error
       \/ /\ out_files' = out_files
          /\ Raise("inference")
    /\ UNCHANGED <<argv, args, prep_calls, paddings, loaders, vocab_sizes,
                   listing, idx, models, ensemble, inference, model, trainer,
                   train_calls, checkpoints,
                   compVars>>

\* lines 141-160: RecurrentRgModel for 'lstm', ConvRgModel otherwise
BuildModel ==
    /\ pc = "build"
    /\ model' = Some([kind |-> IF The(args).model = Some("lstm")
                               THEN "RecurrentRgModel" ELSE "ConvRgModel",
                      vocab_sizes |-> vocab_sizes])
    /\ pc' = "trainer"
    /\ UNCHANGED <<argv, args, error, prep_calls, paddings, loaders,
                   vocab_sizes, listing, idx, models, ensemble, inference,
                   runs, out_files, trainer, train_calls, checkpoints,
                   compVars>>

\* lines 161-166
BuildTrainer ==
    /\ pc = "trainer"
    /\ trainer' = Some(NewTrainer(The(args), paddings))
    /\ pc' = "train"
    /\ UNCHANGED <<argv, args, error, prep_calls, paddings, loaders,
                   vocab_sizes, listing, idx, models, ensemble, inference,
                   runs, out_files, model, train_calls, checkpoints,
                   compVars>>

\* lines 168-172: trainer.train persists a checkpoint or none, or raises
Train ==
    /\ pc = "train"
    /\ train_calls' = Append(train_calls, TrainCall(The(args)))
    /\ \/ /\ checkpoints' \in {checkpoints, checkpoints + 1}
          /\ pc' = "done"
          /\ error' = error
       \/ /\ checkpoints' = checkpoints
          /\ Raise("train")
    /\ UNCHANGED <<argv, args, prep_calls, paddings, loaders, vocab_sizes,
                   listing, idx, models, ensemble, inference, runs,
                   out_files, model, trainer,
                   compVars>>

Next ==
    \/ ParseArgs
    \/ PrepData
    \/ BuildLoaders
    \/ ListDir
    \/ LoadNext
    \/ BuildEnsemble
    \/ BuildInference
    \/ RunInference
    \/ BuildModel
    \/ BuildTrainer
    \/ Train

Spec == Init /\ [][Next]_vars

---------------------------------------------------------------------------
(* Trainer.train (trainer.py), after the design document, section 4.1 *)

\* exact fractions <<numerator, denominator>>
RatMul(a, b) == <<a[1] * b[1], a[2] * b[2]>>

RatEq(a, b) == a[1] * b[2] = b[1] * a[2]

Metrics == 0..MaxMetric

\* decay factors with 0 < lr_decay <= 1
DecayChoices == {DefaultLrDecay, <<1, 1>>}

TrainArgvs ==
    [just_eval : {FALSE},
     show_correctness : {FALSE},
     preddata : {None},
     eval_models : {None},
     ignore_idx : {None},
     average_func : {None},
     model : Opt(ModelChoices),
     num_epochs : 0..MaxEpochs,
     lr : {DefaultLr},
     lr_decay : DecayChoices]

\* main at line 168: the model and the Trainer are built
TrainInit ==
    /\ argv \in TrainArgvs
    /\ args = Some(Namespace(argv))
    /\ pc = "train"
    /\ error = ""
    /\ prep_calls = 1
    /\ paddings \in [1..NFields -> {50}]
    /\ loaders = Loaders
    /\ vocab_sizes = VocabSizes(paddings)
    /\ listing = <<>>
    /\ idx = 0
    /\ models = <<>>
    /\ ensemble = None
    /\ inference = None
    /\ runs = <<>>
    /\ out_files = {}
    /\ model = Some([kind |-> IF argv.model = Some("lstm")
                              THEN "RecurrentRgModel" ELSE "ConvRgModel",
                     vocab_sizes |-> vocab_sizes])
    /\ trainer = Some(NewTrainer(The(args), paddings))
    /\ train_calls = <<>>
    /\ checkpoints = 0
    /\ tr = TrIdle
    /\ member_out = <<>>
    /\ combined = None
    /\ cands = <<>>
    /\ tuples = <<>>

\* m is strictly better than the best metric seen (None: nothing seen)
Improves(m, best) == best = None \/ m > The(best)

\* trainer.train(model, loaders, n_epochs, lr, lr_decay) is entered; the
\* metric an epoch has to beat first is the implementation's (none, or a
\* starting value)
TrainStart ==
    /\ pc = "train"
    /\ train_calls' = Append(train_calls, TrainCall(The(args)))
    /\ \E base \in Opt(Metrics) :
          tr' = [epoch |-> 0,
                 n_epochs |-> TrainCall(The(args)).n_epochs,
                 lr |-> TrainCall(The(args)).lr,
                 lr_decay |-> TrainCall(The(args)).lr_decay,
                 base |-> base,
                 best |-> base,
                 prev |-> None,
                 saved |-> None,
                 saves |-> <<>>,
                 hist |-> <<>>,
                 lrs |-> <<>>]
    /\ pc' = "epoch"
    /\ UNCHANGED <<argv, args, error, prep_calls, paddings, loaders,
                   vocab_sizes, listing, idx, models, ensemble, inference,
                   runs, out_files, model, trainer, checkpoints, member_out,
                   combined, cands, tuples>>

\* the learning rate after an epoch with validation metric m: decayed when
\* m fails to improve over the previous epoch, never on the first epoch
NextLr(t, m) ==
    IF t.prev # None /\ m <= The(t.prev) THEN RatMul(t.lr, t.lr_decay)
    ELSE t.lr

\* the Trainer's locals after an epoch with validation metric m, the
\* checkpoint written (w) or not
AfterEpochSaveAlways(t, m, w) ==
    [t EXCEPT !.epoch = t.epoch + 1,
              !.hist = Append(t.hist, m),
              !.lrs = Append(t.lrs, t.lr),
              !.lr = NextLr(t, m),
              !.prev = Some(m),
              !.best = IF Improves(m, t.best) THEN Some(m) ELSE t.best,
              !.saved = Some([epoch |-> t.epoch + 1, metric |-> m]),
              !.saves = Append(t.saves, t.epoch + 1)]

AfterEpoch(t, m, w) ==
    [t EXCEPT !.epoch = t.epoch + 1,
              !.hist = Append(t.hist, m),
              !.lrs = Append(t.lrs, t.lr),
              !.lr = NextLr(t, m),
              !.prev = Some(m),
              !.best = IF Improves(m, t.best) THEN Some(m) ELSE t.best,
              !.saved = IF w THEN Some([epoch |-> t.epoch + 1, metric |-> m])
                        ELSE t.saved,
              !.saves = IF w THEN Append(t.saves, t.epoch + 1) ELSE t.saves]

\* one epoch: the training batches, then validation with metric m; a strict
\* improvement persists the model over the previous checkpoint (a save
\* directory that cannot be written is fatal)
TrainEpoch ==
    /\ pc = "epoch"
    /\ tr.epoch < tr.n_epochs
    /\ \E m \in Metrics :
          IF Improves(m, tr.best)
          THEN \/ /\ tr' = AfterEpoch(tr, m, TRUE)
                  /\ checkpoints' = 1
                  /\ UNCHANGED <<pc, error>>
               \/ /\ UNCHANGED <<tr, checkpoints>>
                  /\ Raise("save")
          ELSE /\ tr' = AfterEpoch(tr, m, FALSE)
               /\ UNCHANGED <<checkpoints, pc, error>>
    /\ UNCHANGED <<argv, args, prep_calls, paddings, loaders, vocab_sizes,
                   listing, idx, models, ensemble, inference, runs,
                   out_files, model, trainer, train_calls, member_out,
                   combined, cands, tuples>>

\* train returns after n_epochs epochs, and main with it
TrainReturn ==
    /\ pc = "epoch"
    /\ tr.epoch = tr.n_epochs
    /\ pc' = "done"
    /\ UNCHANGED <<argv, args, error, prep_calls, paddings, loaders,
                   vocab_sizes, listing, idx, models, ensemble, inference,
                   runs, out_files, model, trainer, train_calls, checkpoints,
                   compVars>>

TrainNext ==
    \/ TrainStart
    \/ TrainEpoch
    \/ TrainReturn

SpecTrainer == TrainInit /\ [][TrainNext]_vars

\* the epochs of a metric history that beat the starting value and every
\* earlier epoch
BestEpochs(h, base) ==
    {e \in 1..Len(h) :
        /\ base = None \/ h[e] > The(base)
        /\ \A j \in 1..(e - 1) : h[e] > h[j]}

SetMax(S) == CHOOSE x \in S : \A y \in S : y <= x

\* C4: at every epoch boundary the checkpoint, if any, is the model of the
\* epoch with the best validation metric so far; it is written exactly at
\* the epochs that strictly improve on the best seen
C4_CheckpointIsBest ==
    pc \in {"epoch", "done"} /\ tr # TrIdle =>
        LET B == BestEpochs(tr.hist, tr.base) IN
        /\ Len(tr.saves) = Cardinality(B)
        /\ {tr.saves[i] : i \in 1..Len(tr.saves)} = B
        /\ \A i \in 1..(Len(tr.saves) - 1) : tr.saves[i] < tr.saves[i + 1]
        /\ (tr.saved = None) = (B = {})
        /\ (checkpoints = 0) = (B = {})
        /\ checkpoints <= 1
        /\ tr.saved # None =>
              /\ The(tr.saved).epoch = SetMax(B)
              /\ The(tr.saved).metric = tr.hist[The(tr.saved).epoch]
              /\ \A e \in 1..Len(tr.hist) :
                    tr.hist[e] <= The(tr.saved).metric

\* a later epoch ties the saved one, and an earlier checkpoint was replaced
C4_Witness ==
    /\ pc = "done"
    /\ tr # TrIdle
    /\ Len(tr.saves) = 2
    /\ tr.hist[Len(tr.hist)] = The(tr.saved).metric
    /\ The(tr.saved).epoch < Len(tr.hist)

RECURSIVE RatPow(_, _)
RatPow(a, n) == IF n = 0 THEN <<1, 1>> ELSE RatMul(a, RatPow(a, n - 1))

\* the epochs after the first whose metric does not improve on the
\* previous epoch's
Plateaus(h) == {e \in 2..Len(h) : h[e] <= h[e - 1]}

\* C5: the learning rate of the next epoch is previous_lr * lr_decay after
\* an epoch whose validation metric does not improve, and unchanged
\* otherwise; it is never decayed on the first epoch; so it is
\* lr * lr_decay ^ (number of non-improving epochs after the first)
C5_LrDecay ==
    pc \in {"epoch", "done"} /\ tr # TrIdle =>
        LET used == Append(tr.lrs, tr.lr) IN
        /\ Len(tr.lrs) = Len(tr.hist)
        /\ RatEq(used[1], argv.lr)
        /\ \A e \in 1..Len(tr.hist) :
              IF e \in Plateaus(tr.hist)
              THEN RatEq(used[e + 1], RatMul(used[e], argv.lr_decay))
              ELSE RatEq(used[e + 1], used[e])
        /\ RatEq(tr.lr, RatMul(argv.lr,
                               RatPow(argv.lr_decay,
                                      Cardinality(Plateaus(tr.hist)))))

\* a first epoch that improves on nothing, then a plateau and a decay
C5_Witness ==
    /\ pc = "done"
    /\ tr # TrIdle
    /\ Len(tr.hist) = 3
    /\ tr.base # None
    /\ tr.hist[1] <= The(tr.base)
    /\ Plateaus(tr.hist) = {3}
    /\ RatEq(tr.lr, <<7, 20>>)

---------------------------------------------------------------------------
(* Ensemble.forward (models.py), after the design document, section 4.2 *)

Labels == 0..(NLabels - 1)

RECURSIVE SumOver(_, _)
SumOver(f, S) ==
    IF S = {} THEN 0
    ELSE LET x == CHOOSE y \in S : TRUE IN f[x] + SumOver(f, S \ {x})

RECURSIVE ProdOver(_, _)
ProdOver(f, S) ==
    IF S = {} THEN 1
    ELSE LET x == CHOOSE y \in S : TRUE IN f[x] * ProdOver(f, S \ {x})

\* the probability distributions over the labels, in units of 1/Mass
Dists == {d \in [Labels -> 0..Mass] : SumOver(d, Labels) = Mass}

\* the arithmetic mean with the member count off by one
ArithmeticMeanOffByOne(outs) ==
    [num |-> [k \in Labels |->
                SumOver([i \in 1..Len(outs) |-> outs[i][k]], 1..Len(outs))],
     den |-> (Len(outs) + 1) * Mass]

\* 'arithmetic': the per-label mean across the members, as the fractions
\* num[k] / den
ArithmeticMean(outs) ==
    [num |-> [k \in Labels |->
                SumOver([i \in 1..Len(outs) |-> outs[i][k]], 1..Len(outs))],
     den |-> Len(outs) * Mass]

\* 'geometric': the per-label geometric mean across the members,
\* renormalized.  The mean of label k is the Len(outs)-th root of
\* rad[k] / Mass^Len(outs); the output is root(rad[k]) / Z with Z the sum of
\* the roots, which is not a number when Z = 0
GeometricMean(outs) ==
    LET rad == [k \in Labels |->
                  ProdOver([i \in 1..Len(outs) |-> outs[i][k]],
                           1..Len(outs))]
    IN [rad |-> rad,
        deg |-> Len(outs),
        nan |-> \A k \in Labels : rad[k] = 0]

\* forward(batch): every member's distribution, combined element-wise by
\* the averaging policy
Forward(ens, outs) ==
    IF ens.average_func = "arithmetic"
    THEN [policy |-> "arithmetic", mean |-> ArithmeticMean(outs)]
    ELSE [policy |-> "geometric", mean |-> GeometricMean(outs)]

EnsembleArgvs ==
    [just_eval : {TRUE},
     show_correctness : {FALSE},
     preddata : {Some("gen")},
     eval_models : {Some("models")},
     ignore_idx : {None},
     average_func : Opt(AverageChoices),
     model : {None},
     num_epochs : {DefaultNumEpochs},
     lr : {DefaultLr},
     lr_decay : {DefaultLrDecay}]

\* main at line 129: every file of the directory is a loadable checkpoint
\* and the Ensemble is built
EnsembleInit ==
    /\ argv \in EnsembleArgvs
    /\ args = Some(Namespace(argv))
    /\ pc = "inference"
    /\ error = ""
    /\ prep_calls = 1
    /\ paddings \in [1..NFields -> {50}]
    /\ loaders = Loaders
    /\ vocab_sizes = VocabSizes(paddings)
    /\ \E n \in 1..MaxMembers :
          /\ listing = [i \in 1..n |-> [ext |-> "pt", loadable |-> TRUE]]
          /\ idx = n + 1
          /\ models = [i \in 1..n |-> i]
    /\ ensemble = Some(NewEnsemble(models, The(args)))
    /\ inference = None
    /\ runs = <<>>
    /\ out_files = {}
    /\ model = None
    /\ trainer = None
    /\ train_calls = <<>>
    /\ checkpoints = 0
    /\ tr = TrIdle
    /\ member_out = <<>>
    /\ combined = None
    /\ cands = <<>>
    /\ tuples = <<>>

\* the Ensemble's forward pass on one input of a batch
EnsembleForward ==
    /\ pc = "inference"
    /\ combined = None
    /\ \E outs \in [1..Len(The(ensemble).models) -> Dists] :
          /\ member_out' = outs
          /\ combined' = Some(Forward(The(ensemble), outs))
    /\ UNCHANGED <<mainVars, tr, cands, tuples>>

EnsembleNext == EnsembleForward

SpecEnsemble == EnsembleInit /\ [][EnsembleNext]_vars

\* the probabilities of an output add up to 1: the numerators to the
\* denominator, or the roots to a normalizer Z that is not zero
SumsToOne(out) ==
    IF out.policy = "arithmetic"
    THEN SumOver(out.mean.num, Labels) = out.mean.den
    ELSE ~out.mean.nan

\* the output is the mean of the policy --average-func selects
\* ('arithmetic' when it is not given): under 'arithmetic' the element-wise
\* mean of the members' distributions, under 'geometric' the root of their
\* element-wise product, renormalized
IsSelectedMean(out, outs) ==
    LET n == Len(outs) IN
    /\ n >= 1
    /\ out.policy = IF argv.average_func = None THEN "arithmetic"
                    ELSE The(argv.average_func)
    /\ out.policy = "arithmetic" =>
          \A k \in Labels :
              out.mean.num[k] * (n * Mass) =
                  out.mean.den * SumOver([i \in 1..n |-> outs[i][k]], 1..n)
    /\ out.policy = "geometric" =>
          /\ out.mean.deg = n
          /\ \A k \in Labels :
                out.mean.rad[k] = ProdOver([i \in 1..n |-> outs[i][k]], 1..n)

CommonSupport(outs) ==
    \E k \in Labels : \A i \in 1..Len(outs) : outs[i][k] > 0

---------------------------------------------------------------------------
(* Inference.run (inference.py), after the design document, section 4.3 *)

\* a candidate of the test loader: the model's output distribution for it
\* and its ground-truth label
Cands == [probs : Dists, gold : Labels]

CandSeqs == UNION {[1..n -> Cands] : n \in 0..MaxCands}

\* the most probable label (the first of them on a tie)
ArgMax(p) ==
    CHOOSE k \in Labels :
        /\ \A j \in Labels : p[j] <= p[k]
        /\ \A j \in Labels : p[j] = p[k] => k <= j

\* the line of a candidate with a wrong prediction dropped when
\* show_correctness is set
EmitRightOnly(c, i, ignore, show) ==
    LET pred == ArgMax(c.probs) IN
    IF ignore # None /\ pred = The(ignore) THEN <<>>
    ELSE IF show /\ pred # c.gold THEN <<>>
    ELSE << [cand |-> i,
             label |-> pred,
             mark |-> IF ~show THEN ""
                      ELSE IF pred = c.gold THEN "RIGHT" ELSE "WRONG"] >>

\* the line written for candidate i: none when the predicted label is
\* ignore_idx; RIGHT or WRONG is added when show_correctness is set
Emit(c, i, ignore, show) ==
    LET pred == ArgMax(c.probs) IN
    IF ignore # None /\ pred = The(ignore) THEN <<>>
    ELSE << [cand |-> i,
             label |-> pred,
             mark |-> IF ~show THEN ""
                      ELSE IF pred = c.gold THEN "RIGHT" ELSE "WRONG"] >>

\* the lines written for the candidates from position i on
RECURSIVE Decode(_, _, _, _)
Decode(cs, i, ignore, show) ==
    IF i > Len(cs) THEN <<>>
    ELSE Emit(cs[i], i, ignore, show) \o Decode(cs, i + 1, ignore, show)

InferenceArgvs ==
    [just_eval : {TRUE},
     show_correctness : BOOLEAN,
     preddata : {Some("gen")},
     eval_models : {Some("models")},
     ignore_idx : Opt(Labels),
     average_func : {None},
     model : {None},
     num_epochs : {DefaultNumEpochs},
     lr : {DefaultLr},
     lr_decay : {DefaultLrDecay}]

\* main at line 136: one checkpoint loaded, the Ensemble and the Inference
\* built
InferenceInit ==
    /\ argv \in InferenceArgvs
    /\ args = Some(Namespace(argv))
    /\ pc = "run"
    /\ error = ""
    /\ prep_calls = 1
    /\ paddings \in [1..NFields -> {50}]
    /\ loaders = Loaders
    /\ vocab_sizes = VocabSizes(paddings)
    /\ listing = <<[ext |-> "pt", loadable |-> TRUE]>>
    /\ idx = 2
    /\ models = <<1>>
    /\ ensemble = Some(NewEnsemble(models, The(args)))
    /\ inference = Some(NewInference(The(args)))
    /\ runs = <<>>
    /\ out_files = {}
    /\ model = None
    /\ trainer = None
    /\ train_calls = <<>>
    /\ checkpoints = 0
    /\ tr = TrIdle
    /\ member_out = <<>>
    /\ combined = None
    /\ cands \in CandSeqs
    /\ tuples = <<>>

\* inference.run(loaders[2], model, path): the lines of every candidate, in
\* the loader's order
InferenceRun ==
    /\ pc = "run"
    /\ runs' = Append(runs, [loader |-> loaders[3],
                             members |-> Len(The(ensemble).models),
                             path |-> TuplesPath(The(args))])
    /\ tuples' = Decode(cands, 1, The(inference).ignore_idx,
                        The(inference).show_correctness)
    /\ out_files' = out_files \cup {TuplesPath(The(args))}
    /\ pc' = "done"
    /\ UNCHANGED <<argv, args, error, prep_calls, paddings, loaders,
                   vocab_sizes, listing, idx, models, ensemble, inference,
                   model, trainer, train_calls, checkpoints, tr, member_out,
                   combined, cands>>

InferenceNext == InferenceRun

SpecInference == InferenceInit /\ [][InferenceNext]_vars

\* C7: with ignore_idx set, no line whose predicted label is ignore_idx is
\* written; candidates that are all predicted ignore_idx give no line
C7_IgnoredNeverWritten ==
    argv.ignore_idx # None =>
        /\ \A t \in 1..Len(tuples) :
              tuples[t].label # The(argv.ignore_idx)
        /\ (pc = "done" /\ \A i \in 1..Len(cands) :
                ArgMax(cands[i].probs) = The(argv.ignore_idx))
              => tuples = <<>>
        /\ pc = "done" =>
              Len(tuples) = Cardinality({i \in 1..Len(cands) :
                  ArgMax(cands[i].probs) # The(argv.ignore_idx)})

\* one candidate is suppressed and one is written
C7_Witness ==
    /\ pc = "done"
    /\ argv.ignore_idx # None
    /\ Len(cands) = 2
    /\ ArgMax(cands[1].probs) = The(argv.ignore_idx)
    /\ Len(tuples) = 1

\* a line without its RIGHT/WRONG annotation
Unmarked(ts) == [t \in 1..Len(ts) |-> [cand |-> ts[t].cand,
                                       label |-> ts[t].label]]

\* C8: the run with show_correctness flipped writes the same candidates
\* with the same labels in the same order; only the annotation differs
C8_CorrectnessOnlyAnnotates ==
    pc = "done" =>
        LET other == Decode(cands, 1, The(inference).ignore_idx,
                            ~The(inference).show_correctness)
            marked == IF The(inference).show_correctness THEN tuples
                      ELSE other
            plain == IF The(inference).show_correctness THEN other
                     ELSE tuples
        IN
        /\ Unmarked(tuples) = Unmarked(other)
        /\ \A t \in 1..Len(marked) : marked[t].mark \in {"RIGHT", "WRONG"}
        /\ \A t \in 1..Len(plain) : plain[t].mark = ""

\* a run that marks one line RIGHT and one line WRONG
C8_Witness ==
    /\ pc = "done"
    /\ The(inference).show_correctness
    /\ Len(tuples) = 2
    /\ tuples[1].mark = "WRONG"
    /\ tuples[2].mark = "RIGHT"

---------------------------------------------------------------------------
(* Properties of main *)

\* the configuration errors of the design document, section 7, that the
\* command line shows: train mode without a valid --model, evaluate-only
\* mode without --eval-models or without --preddata
ConfigError(av) ==
    \/ ~ChoicesOk(av)
    \/ ~av.just_eval /\ av.model = None
    \/ av.just_eval /\ (av.eval_models = None \/ av.preddata = None)

\* C1: a run with a configuration error ends before prep_data is called
\* and before any model (RgModel.from_file, RecurrentRgModel, ConvRgModel,
\* Ensemble) is constructed
C1_ConfigErrorsFailFast ==
    ConfigError(argv) =>
        /\ prep_calls = 0
        /\ models = <<>>
        /\ ensemble = None
        /\ model = None

\* C2: an evaluate-only run that returns has built an Ensemble and run
\* inference exactly once, over the third loader, writing
\* '<preddata>-tuples.txt'; it never constructs a Trainer, calls train or
\* writes a checkpoint; a train-mode run writes no decoded-tuple file; no
\* run does both
C2_ModesExclusive ==
    /\ (argv.just_eval /\ pc = "done") =>
            /\ ensemble # None
            /\ Len(runs) = 1
            /\ runs[1].loader = Loaders[3]
            /\ runs[1].path = Str(argv.preddata) \o "-tuples.txt"
            /\ out_files = {Str(argv.preddata) \o "-tuples.txt"}
    /\ argv.just_eval =>
            /\ Len(runs) <= 1
            /\ model = None
            /\ trainer = None
            /\ train_calls = <<>>
            /\ checkpoints = 0
    /\ ~argv.just_eval =>
            /\ ensemble = None
            /\ inference = None
            /\ runs = <<>>
            /\ out_files = {}
    /\ ~(runs # <<>> /\ (trainer # None \/ train_calls # <<>>))

C2_Witness ==
    /\ argv.just_eval
    /\ pc = "done"
    /\ out_files = {"gen-tuples.txt"}

\* the positions of the checkpoint files ('.pt') of a listing
PtFiles(l) == {i \in 1..Len(l) : EndsWithPt(l[i])}

\* C3: a checkpoint file that cannot be deserialized fails the load: no
\* Ensemble is formed from the remaining files and no inference is run; an
\* Ensemble that exists has one member for every checkpoint file
C3_AllOrNothing ==
    /\ (\E i \in PtFiles(listing) : ~listing[i].loadable) =>
            /\ ensemble = None
            /\ runs = <<>>
            /\ pc \in {"load", "raised"}
    /\ ensemble # None =>
            /\ Len(The(ensemble).models) = Cardinality(PtFiles(listing))
            /\ {The(ensemble).models[j] :
                    j \in 1..Len(The(ensemble).models)} = PtFiles(listing)

\* a loadable checkpoint was read before the one that failed
C3_Witness ==
    /\ pc = "raised"
    /\ error = "from_file"
    /\ models # <<>>
    /\ ensemble = None

\* nn.Embedding(size, ...) accepts the indices 0..size-1
InRange(i, size) == 0 <= i /\ i < size

\* C9: the embedding table size given to the model in train mode is
\* padding_index + 1 for every field, so every index up to the padding
\* index is in range; for padding index 50 the size is 51
C9_PaddingInRange ==
    model # None =>
        \A f \in 1..NFields :
            /\ The(model).vocab_sizes[f] = paddings[f] + 1
            /\ \A i \in 0..paddings[f] :
                    InRange(i, The(model).vocab_sizes[f])
            /\ paddings[f] = 50 => The(model).vocab_sizes[f] = 51

C9_Witness ==
    /\ model # None
    /\ \E f \in 1..NFields : paddings[f] = 50

\* C10: an Ensemble that inference runs with has at least one member
C10_EnsembleNonEmpty ==
    \A r \in 1..Len(runs) : runs[r].members >= 1

====
